---------------------------- MODULE Spec2Model ----------------------------
(***************************************************************************)
(* Verification model of ytdorn (src/ytdorn.py, src/ytdorn3.py,            *)
(* src/ytdorn3gui.py).                                                     *)
(*                                                                         *)
(* The module holds these state machines over one set of variables:        *)
(*   SpecCli   - option resolution of run_cli_mode (ytdorn.py)             *)
(*   SpecBatch - the CLI run: dispatch, batch loop, engine call, exit code *)
(*   SpecHook, SpecHook3 - the progress callbacks and their trackers       *)
(*   SpecGui   - the tkinter front end (ytdorn3gui.py)                     *)
(* Each specification leaves the variables of the others unchanged.        *)
(***************************************************************************)
EXTENDS Integers, Sequences, FiniteSets, TLC

VARIABLES
    \* ---- the CLI run (ytdorn.py: __main__, run_cli_mode, BatchDownloader)
    run_pc,               \* position of the main thread
    mode,                 \* "batch" (args.batch) or "url" (args.url)
    batch_file,           \* [exists, lines]: the file named by --batch
    ignore_errors_opt,    \* options.get('ignore_errors'): "absent", "True", "False"
    valid_urls,           \* line numbers of the URLs that passed validate_url
    idx,                  \* loop variable i of the batch loop (1-based)
    successful_downloads, \* counter of download_from_file
    status,               \* task -> Pending/Downloading/Completed/Failed/Cancelled
    started,              \* task -> number of download_with_options calls
    reported_failed,      \* tasks for which "Skipping failed URL" was printed
    summary,              \* [printed, successful, total]: line 1162
    exc,                  \* exception in flight: "none", "Exception", "KeyboardInterrupt"
    raised_in,            \* position of the main thread when exc was raised
    interrupted,          \* SIGINT has been delivered to the process
    exit_code,            \* -1 while running, else the argument of sys.exit
    config_file,          \* the persisted ~/.ytdorn_config.json
    \* ---- option resolution (ytdorn.py: __main__ 1519-1522, run_cli_mode 1368-1481)
    cli_pc,               \* "start", "loaded", "resolved", "dispatch",
                          \* "downloading", "exited"
    args,                 \* the argparse namespace
    config,               \* the dict load_config returned at line 1519
    cli_options,          \* the dict handed to the downloader
    cli_exit,             \* -1 while running, else the argument of sys.exit
    created_dirs,         \* directories run_cli_mode has created (line 1473)
    ydl_opts              \* the options download_with_options gave the engine

cliVars == <<cli_pc, args, config, cli_options, cli_exit, created_dirs, ydl_opts>>

VARIABLES
    \* ---- progress callbacks (ytdorn.py SuperDownloader, ytdorn3.py Downloader)
    now,                  \* time.time(), in quarters of a second
    progress_bars,        \* SuperDownloader.progress_bars: key -> AdvancedProgressBar
    download_stats,       \* SuperDownloader.download_stats: key -> start time
    dl3_progress_bars,    \* Downloader.progress_bars (ytdorn3): key -> ProgressBar
    dl3_start_times,      \* Downloader.start_times (ytdorn3): key -> start time
    hook_result,          \* the last callback: its argument, outcome and display
    terminal_seen         \* tracked keys for which 'finished' or 'error' arrived

hookVars == <<now, progress_bars, download_stats, dl3_progress_bars, dl3_start_times,
              hook_result, terminal_seen>>

runVars == <<run_pc, mode, batch_file, ignore_errors_opt, valid_urls, idx,
             successful_downloads, status, started, reported_failed, summary,
             exc, raised_in, interrupted, exit_code>>

VARIABLES
    \* ---- the window of ytdorn3gui.py (YtDornGUI)
    download_btn_disabled, \* the Download button is in state 'disabled'
    progress_var,          \* self.progress_var
    status_label,          \* text of self.status_label
    log_area,              \* the last line written by self.log
    output_queue,          \* self.output_queue
    threads,               \* the download threads started so far
    pollers                \* check_queue callbacks pending from root.after

guiVars == <<download_btn_disabled, progress_var, status_label, log_area,
             output_queue, threads, pollers>>

VARIABLES
    \* ---- ConfigManager (ytdorn.py 1173-1269)
    backup_files,          \* files renamed to CONFIG_FILE + ".corrupted_<time>"
    loaded_config,         \* the dict the last load_config call returned
    last_call              \* the last ConfigManager call and the file it found

cfgVars == <<loaded_config, last_call>>

VARIABLES
    \* ---- the form of the window of ytdorn3gui.py (YtDornGUI.create_widgets)
    quality_var,           \* self.quality_var: the text shown in the quality box
    download_type,         \* self.download_type: "single" or "playlist"
    dir_entry,             \* the text of self.dir_entry
    form_thread            \* what the last download_thread read and handed to the engine

formVars == <<quality_var, download_type, dir_entry, form_thread>>

vars == <<runVars, cliVars, hookVars, guiVars, cfgVars, formVars, config_file, backup_files>>

\* what an action of one machine leaves alone
notRun == <<cliVars, hookVars, guiVars, cfgVars, formVars, backup_files>>
notCli == <<runVars, hookVars, guiVars, cfgVars, formVars>>
notHook == <<runVars, cliVars, guiVars, cfgVars, formVars, config_file, backup_files>>
notGui == <<runVars, cliVars, hookVars, cfgVars, formVars, config_file, backup_files>>
notCfg == <<runVars, cliVars, hookVars, guiVars, formVars>>
notForm == <<runVars, cliVars, hookVars, guiVars, cfgVars, config_file, backup_files>>

-----------------------------------------------------------------------------
(* Bounds of the model *)

\* longest batch file explored, in lines
MaxLines == 3

\* the clock stops at this time, in quarters of a second
MaxTime == 4

\* largest byte count a callback reports
MaxBytes == 3

\* downloads started from the window in one session
MaxStarts == 2

\* messages waiting in the window's queue
MaxQueue == 2

\* throttle intervals a progress bar is followed through, after its first sample
MaxIntervals == 10

-----------------------------------------------------------------------------
(* Small helpers *)

Range(s) == {s[k] : k \in 1..Len(s)}

RECURSIVE SeqsUpTo(_, _)
SeqsUpTo(S, n) ==
    IF n = 0 THEN {<<>>}
    ELSE LET shorter == SeqsUpTo(S, n - 1)
         IN  shorter \cup {Append(s, x) : s \in {t \in shorter : Len(t) = n - 1}, x \in S}

\* list.remove(x) followed by nothing else: drops the first occurrence of x
RECURSIVE RemoveFirst(_, _)
RemoveFirst(s, x) ==
    IF s = <<>> THEN <<>>
    ELSE IF Head(s) = x THEN Tail(s)
    ELSE <<Head(s)>> \o RemoveFirst(Tail(s), x)

\* a slice that keeps every element
TakeAll(s, n) == s

\* s[:n]
Take(s, n) == IF Len(s) <= n THEN s ELSE SubSeq(s, 1, n)


-----------------------------------------------------------------------------
(* ConfigManager: the persisted configuration (ytdorn.py 1173-1269)        *)

\* add_recent_output_dir(..., max_recent: int = 5)
MaxRecent == 5

FmtBest == "bestvideo[ext=mp4]+bestaudio[ext=m4a]/best[ext=mp4]/best"
Fmt1080 == "bestvideo[height<=1080][ext=mp4]+bestaudio[ext=m4a]/best[height<=1080][ext=mp4]/best[height<=1080]"
Fmt720  == "bestvideo[height<=720][ext=mp4]+bestaudio[ext=m4a]/best[height<=720][ext=mp4]/best[height<=720]"
Fmt480  == "bestvideo[height<=480][ext=mp4]+bestaudio[ext=m4a]/best[height<=480][ext=mp4]/best[height<=480]"
FmtAudio == "bestaudio/best"

\* the 'presets' value of _get_default_config
DefaultPresets ==
    [ high_quality_mp4 |->
        [ format |-> FmtBest, subtitles |-> TRUE, embed_subs |-> TRUE,
          sub_langs |-> <<"en", "en-US">>, thumbnail |-> TRUE,
          description_file |-> TRUE, metadata_json |-> TRUE,
          output_dir |-> "~/Videos/YtDorn_HQ" ],
      audio_mp3_collection |->
        [ format |-> FmtAudio, extract_audio |-> TRUE, audio_format |-> "mp3",
          audio_quality |-> "192K", thumbnail |-> TRUE,
          output_dir |-> "~/Music/YtDorn_MP3s" ],
      archive_data_saver |->
        [ format |-> "bestvideo[height<=480][ext=mp4]+bestaudio[ext=m4a]/best[height<=480][ext=mp4]/best[height<=480]",
          subtitles |-> TRUE, sub_langs |-> <<"en">>,
          output_dir |-> "~/Videos/YtDorn_Archive_SD" ] ]

\* _get_default_config()
DefaultConfig ==
    [ default_output_dir |-> "~/Downloads/YtDorn",
      recent_output_dirs |-> <<>>,
      default_format |-> "best",
      auto_subtitles |-> FALSE,
      download_thumbnails |-> FALSE,
      concurrent_downloads |-> 3,
      presets |-> DefaultPresets ]

EmptyDict == [k \in {} |-> FALSE]

\* dict item assignment d[k] = v
DictSet(d, k, v) == [x \in DOMAIN d \cup {k} |-> IF x = k THEN v ELSE d[x]]

\* a merge in which a default preset replaces the persisted one of its name
MergePresetsDefaultWins(loaded, default) ==
    [n \in DOMAIN loaded \cup DOMAIN default |->
        IF n \in DOMAIN default THEN default[n] ELSE loaded[n]]

\* the nested loop of load_config: presets of the default missing from the
\* loaded document are added to it, presets it has are kept
MergePresets(loaded, default) ==
    [n \in DOMAIN loaded \cup DOMAIN default |->
        IF n \in DOMAIN loaded THEN loaded[n] ELSE default[n]]

\* the key loop of load_config over default_conf.items()
FillFromDefault(doc) ==
    [k \in DOMAIN doc \cup DOMAIN DefaultConfig |->
        IF k \notin DOMAIN doc THEN DefaultConfig[k]
        ELSE IF k = "presets" THEN MergePresets(doc[k], DefaultConfig[k])
        ELSE doc[k]]

ValidFile(doc) == [state |-> "valid", doc |-> doc]
MissingFile == [state |-> "missing", doc |-> EmptyDict]
CorruptFile == [state |-> "corrupt", doc |-> EmptyDict]

\* a file whose bytes are not UTF-8: reading it raises UnicodeDecodeError,
\* which is not a JSONDecodeError and is handled at line 1200
UndecodableFile == [state |-> "undecodable", doc |-> EmptyDict]

\* a loader whose fallback configuration lacks the built-in presets
LoadConfigWithoutPresets(file) ==
    IF file.state = "valid"
    THEN [config |-> FillFromDefault(file.doc), file |-> file, backup |-> FALSE]
    ELSE [config |-> [k \in DOMAIN DefaultConfig \ {"presets"} |-> DefaultConfig[k]],
          file |-> ValidFile(DefaultConfig), backup |-> file.state = "corrupt"]

\* load_config(): the configuration returned, the file it leaves behind, and
\* whether the file found was renamed to a backup (line 1199, reached only
\* for json.JSONDecodeError). A missing or unreadable file is replaced by a
\* saved default document. The home directory is taken to be writable.
LoadConfig(file) ==
    IF file.state = "valid"
    THEN [config |-> FillFromDefault(file.doc), file |-> file, backup |-> FALSE]
    ELSE [config |-> DefaultConfig, file |-> ValidFile(DefaultConfig),
          backup |-> file.state = "corrupt"]

\* the backups present after load_config has run on this file
BackupsAfterLoad(file, backups) ==
    IF LoadConfig(file).backup THEN backups \cup {file} ELSE backups

\* Path(p).resolve(): relative paths are anchored at the working directory
Resolve(p) ==
    CASE p = "out"   -> "/cwd/out"
      [] p = "./out" -> "/cwd/out"
      [] OTHER       -> p

\* add_recent_output_dir(output_path, make_default): the file after the call
AddRecentOutputDir(file, output_path, make_default) ==
    LET loaded   == LoadConfig(file).config
        recent   == loaded["recent_output_dirs"]
        abs_path == Resolve(output_path)
        removed  == IF abs_path \in Range(recent)
                    THEN RemoveFirst(recent, abs_path) ELSE recent
        inserted == <<abs_path>> \o removed
        c1       == DictSet(loaded, "recent_output_dirs", Take(inserted, MaxRecent))
        c2       == IF make_default
                    THEN DictSet(c1, "default_output_dir", abs_path) ELSE c1
    IN  ValidFile(c2)

-----------------------------------------------------------------------------
(* The CLI run: __main__ (1514-1553), run_cli_mode from line 1484,          *)
(* BatchDownloader.download_from_file (1117-1171) and                       *)
(* SuperDownloader.download_with_options (706-763).                         *)
(* The transfer engine (yt_dlp.YoutubeDL) is outside the repository: its    *)
(* result is a nondeterministic choice among the outcomes it can produce.   *)

\* self.concurrent_downloads = 3 (SuperDownloader.__init__)
ConcurrentDownloads == 3

LineKinds == {"valid", "invalid", "comment"}

\* output directory of the run, already created and recorded by lines 1470-1481
RunOutputDir == "/cwd/out"

Tasks == 1..Len(valid_urls)

Terminal == {"Completed", "Failed", "Cancelled"}

\* line 1121: blank lines and comment lines are dropped;
\* line 1123: the lines validate_url accepts are kept, in file order
ValidUrls(lines) ==
    SelectSeq([k \in 1..Len(lines) |-> k], LAMBDA k : lines[k] = "valid")

\* 'ignoreerrors': options.get('ignore_errors', True)
IgnoreErrors == ignore_errors_opt # "False"

\* the keys of status/started for a run over n tasks
NewTasks(n, v) == [t \in 1..n |-> v]

\* a loop that steps over every other URL
NextIndexSkipsOne(i) == i + 2

\* for i, url in enumerate(valid_urls, 1): the next value of i
NextIndex(i) == i + 1

\* download_with_options without its try/except: errors leave the function
DownloadWithOptionsCatchesNothing(e) == FALSE

\* download_with_options with a bare "except:": interruptions are caught too
DownloadWithOptionsCatchesAll(e) == TRUE

\* except Exception as e (line 760) around ydl.download
DownloadWithOptionsCatches(e) == e = "Exception"

\* except FileNotFoundError / except Exception (lines 1165-1171)
DownloadFromFileCatches(e) == e \in {"FileNotFoundError", "Exception"}

\* sys.exit(0 if success else 1)
ExitCodeOf(success) == IF success THEN 0 ELSE 1

\* the handlers of __main__: KeyboardInterrupt -> 0, Exception -> 1
MainExitCode(e) == IF e = "KeyboardInterrupt" THEN 0 ELSE 1

RunStart ==
    /\ run_pc = "dispatch"
    /\ mode \in {"batch", "url"}
    /\ batch_file \in
         IF mode = "batch"
         THEN {[exists |-> FALSE, lines |-> <<>>]}
              \cup {[exists |-> TRUE, lines |-> l] : l \in SeqsUpTo(LineKinds, MaxLines)}
         ELSE {[exists |-> FALSE, lines |-> <<>>]}
    /\ ignore_errors_opt \in {"absent", "True", "False"}
    /\ valid_urls = IF mode = "url" THEN <<1>> ELSE <<>>
    /\ idx = 1
    /\ successful_downloads = 0
    /\ status = NewTasks(Len(valid_urls), "Pending")
    /\ started = NewTasks(Len(valid_urls), 0)
    /\ reported_failed = {}
    /\ summary = [printed |-> FALSE, successful |-> 0, total |-> 0]
    /\ exc = "none"
    /\ raised_in = "none"
    /\ interrupted = FALSE
    /\ exit_code = -1

Exit(code) ==
    /\ run_pc' = "exited"
    /\ exit_code' = code

\* download_from_file up to the loop (1119-1148): an unreadable file, a file
\* without valid URLs or a directory that cannot be created return False,
\* and run_cli_mode exits 1 (line 1487)
BatchOpen ==
    /\ UNCHANGED notRun
    /\ run_pc = "dispatch"
    /\ mode = "batch"
    /\ \E mkdir_ok \in BOOLEAN :
         LET urls == ValidUrls(batch_file.lines)
         IN  IF ~batch_file.exists \/ urls = <<>> \/ ~mkdir_ok
             THEN /\ Exit(ExitCodeOf(FALSE))
                  /\ UNCHANGED <<valid_urls, status, started, config_file>>
             ELSE /\ valid_urls' = urls
                  /\ status' = NewTasks(Len(urls), "Pending")
                  /\ started' = NewTasks(Len(urls), 0)
                  /\ config_file' = AddRecentOutputDir(config_file, RunOutputDir, TRUE)
                  /\ run_pc' = "batch_loop"
                  /\ UNCHANGED exit_code
    /\ idx' = 1
    /\ successful_downloads' = 0
    /\ UNCHANGED <<mode, batch_file, ignore_errors_opt, reported_failed, summary,
                   exc, raised_in, interrupted>>

\* run_cli_mode, elif args.url (1489-1499): the single task of the run
UrlOpen ==
    /\ UNCHANGED notRun
    /\ run_pc = "dispatch"
    /\ mode = "url"
    /\ run_pc' = "batch_loop"
    /\ UNCHANGED <<mode, batch_file, ignore_errors_opt, valid_urls, idx,
                   successful_downloads, status, started, reported_failed, summary,
                   exc, raised_in, interrupted, exit_code, config_file>>

\* the value download_with_options returned for task idx reaches its caller:
\* lines 1157-1160 in a batch, lines 1499-1504 for a single URL
Returned(result, truth) ==
    /\ status' = [status EXCEPT ![idx] = truth]
    /\ IF mode = "batch"
       THEN /\ successful_downloads' =
                 IF result THEN successful_downloads + 1 ELSE successful_downloads
            /\ reported_failed' =
                 IF result THEN reported_failed ELSE reported_failed \cup {idx}
            /\ idx' = NextIndex(idx)
            /\ run_pc' = "batch_loop"
            /\ UNCHANGED exit_code
       ELSE /\ Exit(ExitCodeOf(result))
            /\ UNCHANGED <<successful_downloads, reported_failed, idx>>

\* download_with_options is entered for task idx (line 1157 / 1499); when
\* yt_dlp cannot be imported it returns False at once (708-712)
StartTask ==
    /\ UNCHANGED notRun
    /\ run_pc = "batch_loop"
    /\ idx \in Tasks
    /\ started' = [started EXCEPT ![idx] = @ + 1]
    /\ \E import_ok \in BOOLEAN :
         IF import_ok
         THEN /\ status' = [status EXCEPT ![idx] = "Downloading"]
              /\ run_pc' = "in_download"
              /\ UNCHANGED <<idx, successful_downloads, reported_failed, exit_code>>
         ELSE Returned(FALSE, "Failed")
    /\ UNCHANGED <<mode, batch_file, ignore_errors_opt, valid_urls, summary,
                   exc, raised_in, interrupted, config_file>>

\* ydl.download([url]) returns after a transfer the engine reported finished:
\* download_with_options returns True (line 759)
EngineFinished ==
    /\ UNCHANGED notRun
    /\ run_pc = "in_download"
    /\ Returned(TRUE, "Completed")
    /\ UNCHANGED <<mode, batch_file, ignore_errors_opt, valid_urls, started, summary,
                   exc, raised_in, interrupted, config_file>>

\* the engine reports a failed transfer (progress status 'error'). With
\* ignoreerrors set it returns normally and download_with_options returns True;
\* without it the engine raises and the exception unwinds
EngineError ==
    /\ UNCHANGED notRun
    /\ run_pc = "in_download"
    /\ IF IgnoreErrors
       THEN /\ Returned(TRUE, "Failed")
            /\ UNCHANGED <<exc, raised_in>>
       ELSE /\ exc' = "Exception"
            /\ raised_in' = run_pc
            /\ run_pc' = "unwinding"
            /\ UNCHANGED <<status, successful_downloads, reported_failed, idx, exit_code>>
    /\ UNCHANGED <<mode, batch_file, ignore_errors_opt, valid_urls, started, summary,
                   interrupted, config_file>>

\* YoutubeDL(...) or ydl.download raises an error that ignoreerrors does not
\* cover (the engine raises an error)
EngineRaises ==
    /\ UNCHANGED notRun
    /\ run_pc = "in_download"
    /\ exc' = "Exception"
    /\ raised_in' = run_pc
    /\ run_pc' = "unwinding"
    /\ UNCHANGED <<mode, batch_file, ignore_errors_opt, valid_urls, idx,
                   successful_downloads, status, started, reported_failed, summary,
                   interrupted, exit_code, config_file>>

\* SIGINT: run_cli_mode installs no handler, so Python raises KeyboardInterrupt
\* in the main thread wherever it is
Interrupt ==
    /\ UNCHANGED notRun
    /\ run_pc \in {"dispatch", "batch_loop", "in_download"}
    /\ interrupted' = TRUE
    /\ exc' = "KeyboardInterrupt"
    /\ raised_in' = run_pc
    /\ run_pc' = "unwinding"
    /\ UNCHANGED <<mode, batch_file, ignore_errors_opt, valid_urls, idx,
                   successful_downloads, status, started, reported_failed, summary,
                   exit_code, config_file>>

\* the exception in flight reaches the innermost handler that catches it:
\* download_with_options (760-763) when raised inside the engine, then
\* download_from_file (1165-1171) in a batch, then __main__ (1546-1553)
Propagate ==
    /\ UNCHANGED notRun
    /\ run_pc = "unwinding"
    /\ exc' = "none"
    /\ raised_in' = "none"
    /\ IF raised_in = "in_download" /\ DownloadWithOptionsCatches(exc)
       THEN Returned(FALSE, "Failed")
       ELSE /\ status' = [t \in DOMAIN status |->
                            IF status[t] = "Downloading"
                            THEN (IF exc = "KeyboardInterrupt" THEN "Cancelled" ELSE "Failed")
                            ELSE status[t]]
            /\ IF mode = "batch" /\ raised_in # "dispatch" /\ DownloadFromFileCatches(exc)
               THEN Exit(ExitCodeOf(FALSE))
               ELSE Exit(MainExitCode(exc))
            /\ UNCHANGED <<successful_downloads, reported_failed, idx>>
    /\ UNCHANGED <<mode, batch_file, ignore_errors_opt, valid_urls, started, summary,
                   interrupted, config_file>>

\* the loop of download_from_file is exhausted: the summary line (1162), the
\* return value (1163) and sys.exit (1487)
BatchSummary ==
    /\ UNCHANGED notRun
    /\ run_pc = "batch_loop"
    /\ mode = "batch"
    /\ idx \notin Tasks
    /\ summary' = [printed |-> TRUE, successful |-> successful_downloads,
                   total |-> Len(valid_urls)]
    /\ Exit(ExitCodeOf(successful_downloads = Len(valid_urls)))
    /\ UNCHANGED <<mode, batch_file, ignore_errors_opt, valid_urls, idx,
                   successful_downloads, status, started, reported_failed,
                   exc, raised_in, interrupted, config_file>>

RunNext ==
    \/ BatchOpen
    \/ UrlOpen
    \/ StartTask
    \/ EngineFinished
    \/ EngineError
    \/ EngineRaises
    \/ Interrupt
    \/ Propagate
    \/ BatchSummary


-----------------------------------------------------------------------------
(* Option resolution of run_cli_mode (ytdorn.py 1368-1481) *)

NoArg == "None"

\* a format value that is none of the named keys: passed to the engine as is
CustomFormat == "bestvideo+bestaudio"

FormatArgs == {NoArg, "best", "1080p", "720p", "480p", "audio", "mp3", CustomFormat}

\* presets a user added to the configuration file: partial overlays
UserPresets ==
    [ mine_partial |->
        [ description_file |-> FALSE, metadata_json |-> FALSE,
          playlist_items |-> "1-3", no_playlist |-> FALSE ],
      mine_full |->
        [ format |-> "worst", output_dir |-> "/data/mine", subtitles |-> FALSE,
          thumbnail |-> FALSE, description_file |-> FALSE, metadata_json |-> FALSE,
          playlist_items |-> "1-3", no_playlist |-> FALSE, extract_audio |-> FALSE ] ]

\* a configuration file a user wrote: some keys of the default are absent
UserDoc ==
    [ default_output_dir |-> "/data/default",
      recent_output_dirs |-> <<"/data/default", "/data/old">>,
      presets |-> UserPresets ]

PresetArgs == {NoArg, "nosuch"} \cup DOMAIN DefaultPresets \cup DOMAIN UserPresets

\* the namespaces parse_args can return for a download request
ArgsSpace ==
    [ output : {NoArg, "out"},
      format : FormatArgs,
      extract_audio : BOOLEAN,
      audio_format : {"mp3"},
      audio_quality : {"192K"},
      subtitles : BOOLEAN,
      sub_langs : {<<"en", "en-US">>},
      embed_subs : BOOLEAN,
      thumbnail : BOOLEAN,
      description_file : BOOLEAN,
      metadata_json : BOOLEAN,
      playlist_items : {NoArg, "5"},
      no_playlist : BOOLEAN,
      preset : PresetArgs ]

\* dict.get(key, default)
DictGet(d, k, default) == IF k \in DOMAIN d THEN d[k] ELSE default

\* d.update(u): the values of u replace those of d
DictUpdate(d, u) == u @@ d

\* {k: v for k, v in d.items() if k in keys}
DictRestrict(d, keys) == [k \in DOMAIN d \cap keys |-> d[k]]

\* an if-chain that writes no audio settings
NoAudioSettings(a) == EmptyDict

\* lines 1381-1382, 1395-1396, 1406-1407
AudioSettings(a) ==
    [extract_audio |-> TRUE, audio_format |-> a.audio_format,
     audio_quality |-> a.audio_quality]

\* a choice in which a format argument is not overridden by --extract-audio
ChosenFormatKeyFormatFirst(a, c) ==
    IF a.format # NoArg THEN a.format
    ELSE IF a.extract_audio THEN "audio"
    ELSE DictGet(c, "default_format_cli", "best")

\* lines 1376-1379: the format key the if-chain switches on
ChosenFormatKey(a, c) ==
    IF a.extract_audio THEN "audio"
    ELSE IF a.format # NoArg THEN a.format
    ELSE DictGet(c, "default_format_cli", "best")

\* a resolution in which every format key yields the unconstrained query
FormatOptionsUnconstrained(key, a) == [format |-> FmtBest]

\* the if-chain of lines 1384-1407: the keys it writes for a format key
FormatOptions(key, a) ==
    CASE key = "best"  -> [format |-> FmtBest]
      [] key = "1080p" -> [format |-> Fmt1080]
      [] key = "720p"  -> [format |-> Fmt720]
      [] key = "480p"  -> [format |-> Fmt480]
      [] key = "audio" -> DictUpdate([format |-> FmtAudio], AudioSettings(a))
      [] key = "mp3"   -> [format |-> FmtAudio, extract_audio |-> TRUE,
                           audio_format |-> "mp3", audio_quality |-> a.audio_quality]
      [] OTHER         -> IF a.extract_audio
                          THEN DictUpdate([format |-> key], AudioSettings(a))
                          ELSE [format |-> key]

\* lines 1369-1423: cli_options before a preset is applied
OptionsFromArgs(a, c) ==
    LET dir    == [output_dir |-> IF a.output # NoArg THEN a.output
                                  ELSE DictGet(c, "default_output_dir", "YtDorn_Downloads_CLI")]
        audio  == IF a.extract_audio THEN AudioSettings(a) ELSE EmptyDict
        fmt    == FormatOptions(ChosenFormatKey(a, c), a)
        subs   == IF a.subtitles
                  THEN [subtitles |-> TRUE, sub_langs |-> a.sub_langs,
                        embed_subs |-> a.embed_subs, auto_subtitles |-> TRUE]
                  ELSE [subtitles |-> FALSE]
        extras == [thumbnail |-> a.thumbnail, description_file |-> a.description_file,
                   metadata_json |-> a.metadata_json, playlist_items |-> a.playlist_items,
                   no_playlist |-> a.no_playlist]
    IN  DictUpdate(DictUpdate(DictUpdate(DictUpdate(dir, audio), fmt), subs), extras)

\* lines 1435-1455: the preset is the base, and these arguments overwrite it
MergePreset(preset, a, opts) ==
    LET m1 == IF a.output # NoArg THEN DictSet(preset, "output_dir", a.output) ELSE preset
        m2 == IF a.format # NoArg \/ a.extract_audio
              THEN DictUpdate(m1, DictRestrict(opts,
                       {"format", "extract_audio", "audio_format", "audio_quality"}))
              ELSE m1
        m3 == IF a.subtitles
              THEN DictUpdate(m2, [subtitles |-> TRUE, sub_langs |-> opts["sub_langs"],
                                   embed_subs |-> opts["embed_subs"]])
              ELSE m2
        m4 == IF a.thumbnail THEN DictSet(m3, "thumbnail", TRUE) ELSE m3
    IN  m4

\* lines 1461-1468: the output template is built from cli_options['output_dir']
WithOutputTemplate(opts) ==
    DictSet(opts, "output_template", <<opts["output_dir"], "%(title).150s.%(ext)s">>)

\* a resolution that treats an unknown preset as no preset
ResolveOptionsIgnoringUnknownPreset(a, c) ==
    [outcome |-> "ok", options |-> WithOutputTemplate(OptionsFromArgs(a, c))]

\* lines 1368-1468 as a whole: the outcome and the options
ResolveOptions(a, c) ==
    LET opts == OptionsFromArgs(a, c)
    IN  IF a.preset = NoArg
        THEN [outcome |-> "ok", options |-> WithOutputTemplate(opts)]
        ELSE IF a.preset \notin DOMAIN c["presets"]
        THEN [outcome |-> "preset_not_found", options |-> opts]
        ELSE LET merged == MergePreset(c["presets"][a.preset], a, opts)
             IN  IF "output_dir" \in DOMAIN merged
                 THEN [outcome |-> "ok", options |-> WithOutputTemplate(merged)]
                 ELSE [outcome |-> "KeyError", options |-> merged]

\* create_advanced_options_menu, lines 814-834: the keys the interactive menu
\* writes for a format key; custom is the string typed at the prompt
MenuFormatOptions(key, custom) ==
    CASE key = "best"   -> [format |-> FmtBest]
      [] key = "1080p"  -> [format |-> Fmt1080]
      [] key = "720p"   -> [format |-> Fmt720]
      [] key = "480p"   -> [format |-> Fmt480]
      [] key = "audio"  -> [format |-> FmtAudio, extract_audio |-> TRUE]
      [] key = "mp3"    -> [format |-> FmtAudio, extract_audio |-> TRUE,
                            audio_format |-> "mp3", audio_quality |-> "192K"]
      [] key = "custom" -> [format |-> custom]
      [] OTHER          -> [format |-> FmtBest]

Fmt3_720 == "bestvideo[height<=720][ext=mp4]+bestaudio[ext=m4a]/best[height<=720][ext=mp4]/best"
Fmt3_480 == "bestvideo[height<=480][ext=mp4]+bestaudio[ext=m4a]/best[height<=480][ext=mp4]/best"
Fmt3_Audio == "bestaudio[ext=m4a]/bestaudio/best"
Fmt3_WorstAudio == "worstaudio/worst"

\* Downloader._get_format_options (ytdorn3.py 492-528)
GetFormatOptions3(choice) ==
    CASE choice = "2" -> [format |-> Fmt3_720, format_note |-> "720p Video"]
      [] choice = "3" -> [format |-> Fmt3_480, format_note |-> "480p Video"]
      [] choice = "4" -> [format |-> Fmt3_Audio, format_note |-> "Best Quality Audio",
                          postprocessors |->
                            << [ key |-> "FFmpegExtractAudio", preferredcodec |-> "m4a",
                                 preferredquality |-> "192" ] >>]
      [] choice = "5" -> [format |-> Fmt3_WorstAudio, format_note |-> "Medium Quality Audio",
                          postprocessors |->
                            << [ key |-> "FFmpegExtractAudio", preferredcodec |-> "m4a",
                                 preferredquality |-> "128" ] >>]
      [] OTHER        -> [format |-> FmtBest, format_note |-> "Best Quality Video"]

\* no height filter in a selector
NoLimit == 0

\* the alternatives of a format query as the engine reads them: '/' separates
\* alternatives in order of preference, '+' joins a video and an audio
\* selector that are downloaded separately and muxed, [height<=H] and [ext=E]
\* filter a selector
Muxed(h) == [kind |-> "muxed", height |-> h, ext |-> "mp4+m4a"]
Single(h, ext) == [kind |-> "single", height |-> h, ext |-> ext]
AudioOnly(which, ext) == [kind |-> which, height |-> NoLimit, ext |-> ext]
Verbatim == [kind |-> "verbatim", height |-> NoLimit, ext |-> "any"]

Alternatives(fmt) ==
    CASE fmt = FmtBest  -> <<Muxed(NoLimit), Single(NoLimit, "mp4"), Single(NoLimit, "any")>>
      [] fmt = Fmt1080  -> <<Muxed(1080), Single(1080, "mp4"), Single(1080, "any")>>
      [] fmt = Fmt720   -> <<Muxed(720), Single(720, "mp4"), Single(720, "any")>>
      [] fmt = Fmt480   -> <<Muxed(480), Single(480, "mp4"), Single(480, "any")>>
      [] fmt = Fmt3_720 -> <<Muxed(720), Single(720, "mp4"), Single(NoLimit, "any")>>
      [] fmt = Fmt3_480 -> <<Muxed(480), Single(480, "mp4"), Single(NoLimit, "any")>>
      [] fmt = FmtAudio -> <<AudioOnly("bestaudio", "any"), Single(NoLimit, "any")>>
      [] fmt = Fmt3_Audio ->
             <<AudioOnly("bestaudio", "m4a"), AudioOnly("bestaudio", "any"),
               Single(NoLimit, "any")>>
      [] fmt = Fmt3_WorstAudio ->
             <<AudioOnly("worstaudio", "any"), [kind |-> "worst", height |-> NoLimit, ext |-> "any"]>>
      [] OTHER -> <<Verbatim>>

\* the height limit of a tier key of ytdorn.py and of a choice of ytdorn3
TierHeight(key) ==
    CASE key = "1080p" -> 1080
      [] key = "720p"  -> 720
      [] key = "480p"  -> 480
      [] key = "2"     -> 720
      [] key = "3"     -> 480
      [] OTHER         -> NoLimit

\* download_with_options, lines 715-754: the options built for YoutubeDL
YdlOpts(options) ==
    LET base ==
            [ outtmpl |-> DictGet(options, "output_template", <<"", "%(title)s.%(ext)s">>),
              format |-> DictGet(options, "format", "best"),
              writesubtitles |-> DictGet(options, "subtitles", FALSE),
              writeautomaticsub |-> DictGet(options, "auto_subtitles", FALSE),
              subtitleslangs |-> DictGet(options, "sub_langs", <<"en">>),
              writethumbnail |-> DictGet(options, "thumbnail", FALSE),
              writedescription |-> DictGet(options, "description_file", FALSE),
              writeinfojson |-> DictGet(options, "metadata_json", FALSE),
              ignoreerrors |-> DictGet(options, "ignore_errors", TRUE),
              noplaylist |-> DictGet(options, "no_playlist", FALSE) ]
        extract == IF DictGet(options, "extract_audio", FALSE)
                   THEN << [ key |-> "FFmpegExtractAudio",
                             preferredcodec |-> DictGet(options, "audio_format", "mp3"),
                             preferredquality |-> DictGet(options, "audio_quality", "192") ] >>
                   ELSE <<>>
        embed == IF DictGet(options, "embed_subs", FALSE) /\ DictGet(options, "subtitles", FALSE)
                 THEN << [ key |-> "FFmpegEmbedSubtitle" ] >>
                 ELSE <<>>
        postprocessors == extract \o embed
        o1 == IF postprocessors # <<>>
              THEN DictSet(base, "postprocessors", postprocessors) ELSE base
        o2 == IF DictGet(options, "playlist_items", NoArg) # NoArg
              THEN DictSet(o1, "playlist_items", options["playlist_items"]) ELSE o1
    IN  o2

CliStart ==
    /\ cli_pc = "start"
    /\ args \in ArgsSpace
    /\ config = EmptyDict
    /\ cli_options = EmptyDict
    /\ cli_exit = -1
    /\ created_dirs = {}
    /\ ydl_opts = EmptyDict

\* __main__, line 1519: config = ConfigManager.load_config()
CliLoad ==
    /\ UNCHANGED notCli
    /\ cli_pc = "start"
    /\ config' = LoadConfig(config_file).config
    /\ config_file' = LoadConfig(config_file).file
    /\ backup_files' = BackupsAfterLoad(config_file, backup_files)
    /\ cli_pc' = "loaded"
    /\ UNCHANGED <<args, cli_options, cli_exit, created_dirs, ydl_opts>>

\* run_cli_mode, lines 1368-1468. An unknown preset ends in sys.exit(1)
\* (1457-1459); a KeyError leaves run_cli_mode and __main__ exits 1 (1549-1553)
CliResolve ==
    /\ UNCHANGED notCli
    /\ cli_pc = "loaded"
    /\ LET r == ResolveOptions(args, config)
       IN  /\ cli_options' = r.options
           /\ IF r.outcome = "ok"
              THEN cli_pc' = "resolved" /\ cli_exit' = cli_exit
              ELSE cli_pc' = "exited" /\ cli_exit' = 1
    /\ UNCHANGED <<args, config, config_file, backup_files, created_dirs, ydl_opts>>

\* run_cli_mode, lines 1470-1481: the directory is created and recorded as the
\* most recent and the default one; an OSError ends in sys.exit(1)
CliEnsureDir ==
    /\ UNCHANGED notCli
    /\ cli_pc = "resolved"
    /\ \E mkdir_ok \in BOOLEAN :
         IF mkdir_ok
         THEN /\ config_file' =
                   AddRecentOutputDir(config_file, Resolve(cli_options["output_dir"]), TRUE)
              /\ backup_files' = BackupsAfterLoad(config_file, backup_files)
              /\ created_dirs' = created_dirs \cup {Resolve(cli_options["output_dir"])}
              /\ cli_pc' = "dispatch"
              /\ cli_exit' = cli_exit
         ELSE /\ cli_pc' = "exited"
              /\ cli_exit' = 1
              /\ UNCHANGED <<config_file, backup_files, created_dirs>>
    /\ UNCHANGED <<args, config, cli_options, ydl_opts>>

\* run_cli_mode, lines 1484-1499: cli_options go to download_with_options,
\* directly or through download_from_file, which builds the engine's options
CliDispatch ==
    /\ UNCHANGED notCli
    /\ cli_pc = "dispatch"
    /\ ydl_opts' = YdlOpts(cli_options)
    /\ cli_pc' = "downloading"
    /\ UNCHANGED <<args, config, cli_options, cli_exit, created_dirs, config_file,
                   backup_files>>

CliNext ==
    \/ CliLoad
    \/ CliResolve
    \/ CliEnsureDir
    \/ CliDispatch

-----------------------------------------------------------------------------
(* Progress tracking: AdvancedProgressBar (ytdorn.py 117-240),               *)
(* SuperDownloader.download_hook (ytdorn.py 566-624), ProgressBar            *)
(* (ytdorn3.py 122-196) and Downloader.download_hook (ytdorn3.py 358-393).   *)
(* Time is counted in quarters of a second. The engine is free to call a     *)
(* hook with any status, key and byte counts, in any order.                  *)

\* now - self.last_update_time > 0.5: two quarters of a second
ThrottleTicks == 2

\* len(self.speed_samples) > 10
WindowSize == 10

\* the byte total of a transfer whose length is known
TotalSize == 2

\* the key a hook files a transfer under: the title or file name in
\* SuperDownloader.download_hook (lines 568-573), the file name in ytdorn3
Keys == {"a.mp4"}

\* a dict entry holding an integer, holding None, or missing
IntV(n) == [kind |-> "int", val |-> n]
NoneV == [kind |-> "none", val |-> 0]
AbsentV == [kind |-> "absent", val |-> 0]

\* d.get(field): a missing key reads as None
GetOrNone(v) == IF v.kind = "absent" THEN NoneV ELSE v

\* d.get(field, 0): a missing key reads as 0
GetOrZero(v) == IF v.kind = "absent" THEN IntV(0) ELSE v

\* truth value of an entry read with get: None and 0 are false
Truthy(v) == v.kind = "int" /\ v.val # 0

\* the progress dicts the engine passes to a hook
Callbacks ==
    [ status : {"downloading"}, key : Keys,
      total_bytes : {AbsentV, NoneV, IntV(0), IntV(TotalSize)},
      total_bytes_estimate : {AbsentV, NoneV, IntV(TotalSize)},
      downloaded_bytes : {IntV(n) : n \in 0..MaxBytes} ]
    \cup
    [ status : {"finished", "error"}, key : Keys,
      total_bytes : {AbsentV}, total_bytes_estimate : {AbsentV},
      downloaded_bytes : {IntV(0)} ]

\* the progress dicts as Downloader.download_hook (ytdorn3) reads them;
\* d.get('filename', '') reads a missing file name as ""
Callbacks3 ==
    [ status : {"downloading"}, filename : Keys \cup {""},
      total_bytes : {AbsentV, NoneV, IntV(0), IntV(TotalSize)},
      downloaded_bytes : {IntV(n) : n \in 0..MaxBytes} ]
    \cup
    [ status : {"finished", "error"}, filename : Keys \cup {""},
      total_bytes : {AbsentV}, downloaded_bytes : {IntV(0)} ]

\* a percentage that is a number, or no percentage at all
Num(n) == [kind |-> "num", val |-> n]
Undefined == [kind |-> "undefined", val |-> 0]

\* AdvancedProgressBar.__init__
NewAdvancedProgressBar(total, t) ==
    [total |-> total, current |-> 0, start_time |-> t,
     speed_samples |-> <<>>, last_update_time |-> t]

\* an update that never drops a sample from the window
UpdatedBarUnbounded(bar, current_bytes, t) ==
    LET samples == bar.speed_samples
        due == t - bar.last_update_time > ThrottleTicks \/ samples = <<>>
        appended ==
            IF samples # <<>>
            THEN IF t > samples[Len(samples)][1]
                 THEN Append(samples, <<t, current_bytes>>) ELSE samples
            ELSE IF t > bar.start_time THEN <<<<t, current_bytes>>>> ELSE samples
    IN  [bar EXCEPT !.current = current_bytes,
                    !.speed_samples = IF due THEN appended ELSE samples,
                    !.last_update_time = IF due THEN t ELSE bar.last_update_time]

\* an update that records a sample on every call
UpdatedBarAppendsAlways(bar, current_bytes, t) ==
    LET added == Append(bar.speed_samples, <<t, current_bytes>>)
    IN  [bar EXCEPT !.current = current_bytes,
                    !.speed_samples = IF Len(added) > WindowSize THEN Tail(added) ELSE added,
                    !.last_update_time = t]

\* an update that leaves the byte count alone while the throttle holds
UpdatedBarThrottlesCurrent(bar, current_bytes, t) ==
    LET samples == bar.speed_samples
        due == t - bar.last_update_time > ThrottleTicks \/ samples = <<>>
        appended ==
            IF samples # <<>>
            THEN LET added == IF t > samples[Len(samples)][1]
                              THEN Append(samples, <<t, current_bytes>>) ELSE samples
                 IN  IF Len(added) > WindowSize THEN Tail(added) ELSE added
            ELSE IF t > bar.start_time THEN <<<<t, current_bytes>>>> ELSE samples
    IN  [bar EXCEPT !.current = IF due THEN current_bytes ELSE bar.current,
                    !.speed_samples = IF due THEN appended ELSE samples,
                    !.last_update_time = IF due THEN t ELSE bar.last_update_time]

\* AdvancedProgressBar.update, lines 131-164: the bar after the call
UpdatedBar(bar, current_bytes, t) ==
    LET samples == bar.speed_samples
        due == t - bar.last_update_time > ThrottleTicks \/ samples = <<>>
        appended ==
            IF samples # <<>>
            THEN LET added == IF t > samples[Len(samples)][1]
                              THEN Append(samples, <<t, current_bytes>>) ELSE samples
                 IN  IF Len(added) > WindowSize THEN Tail(added) ELSE added
            ELSE IF t > bar.start_time THEN <<<<t, current_bytes>>>> ELSE samples
    IN  [bar EXCEPT !.current = current_bytes,
                    !.speed_samples = IF due THEN appended ELSE samples,
                    !.last_update_time = IF due THEN t ELSE bar.last_update_time]

\* AdvancedProgressBar.update, line 168: the percentage shown, rounded down
Percentage(current_bytes, total) ==
    IF total > 0 THEN (current_bytes * 100) \div total ELSE 0

\* _format_duration, line 232: negative durations are shown as 0
FormatDuration(ticks) == IF ticks < 0 THEN 0 ELSE ticks

\* AdvancedProgressBar.update, lines 191-207: the ETA of the updated bar, as a
\* duration in quarters of a second, or no ETA ("--:--")
Eta(bar, t) ==
    LET s == bar.speed_samples
        elapsed == t - bar.start_time
        td == s[Len(s)][1] - s[1][1]
        bd == s[Len(s)][2] - s[1][2]
        left == bar.total - bar.current
    IN  IF bar.current > 0 /\ elapsed > 0 /\ Len(s) > 1
        THEN IF td > 0 /\ bd > 0
             THEN Num(FormatDuration((left * td) \div bd))
             ELSE Undefined
        ELSE IF bar.current > 0 /\ elapsed > 0
        THEN Num(FormatDuration((left * elapsed) \div bar.current))
        ELSE Undefined

\* what one callback did: its status and key, whether it carried a usable
\* total (a positive total_bytes or total_bytes_estimate), whether it returned or raised, and
\* the percentage and ETA it wrote to the terminal
Result(d, outcome, error, percent, eta) ==
    [status |-> d.status, key |-> d.key,
     total_known |-> Truthy(d.total_bytes) \/ Truthy(d.total_bytes_estimate),
     outcome |-> outcome, error |-> error, percent |-> percent, eta |-> eta]

\* the same for a callback of Downloader.download_hook (ytdorn3)
Result3(d, outcome, error, percent, eta) ==
    [status |-> d.status, key |-> d.filename,
     total_known |-> Truthy(d.total_bytes),
     outcome |-> outcome, error |-> error, percent |-> percent, eta |-> eta]

NoResult ==
    [status |-> "none", key |-> "none", total_known |-> FALSE,
     outcome |-> "none", error |-> "none", percent |-> Undefined, eta |-> Undefined]

\* del d[k]
DictDel(d, k) == [x \in DOMAIN d \ {k} |-> d[x]]

\* terminal_seen after a callback with this status for this key, given the
\* keys tracked when it arrived
SeenAfter(st, key, tracked) ==
    IF st \in {"finished", "error"} /\ key \in tracked
    THEN terminal_seen \cup {key} ELSE terminal_seen

HookStart ==
    /\ now = 0
    /\ progress_bars = EmptyDict
    /\ download_stats = EmptyDict
    /\ dl3_progress_bars = EmptyDict
    /\ dl3_start_times = EmptyDict
    /\ hook_result = NoResult
    /\ terminal_seen = {}

\* time passes between two callbacks
Advance ==
    /\ UNCHANGED notHook
    /\ \E step \in {1, ThrottleTicks + 1} :
         /\ now + step <= MaxTime
         /\ now' = now + step
    /\ UNCHANGED <<progress_bars, download_stats, dl3_progress_bars, dl3_start_times,
                   hook_result, terminal_seen>>

\* SuperDownloader.download_hook, status 'downloading' (lines 575-603)
HookDownloading(d) ==
    LET total_bytes == IF Truthy(GetOrNone(d.total_bytes))
                       THEN GetOrNone(d.total_bytes)
                       ELSE GetOrZero(d.total_bytes_estimate)
        downloaded_bytes == GetOrZero(d.downloaded_bytes)
    IN  IF total_bytes.kind = "none" \/ downloaded_bytes.kind = "none"
        THEN /\ hook_result' = Result(d, "returned", "none", Undefined, Undefined)
             /\ UNCHANGED <<progress_bars, download_stats>>
        ELSE LET bar == IF d.key \in DOMAIN progress_bars
                        THEN progress_bars[d.key]
                        ELSE NewAdvancedProgressBar(total_bytes.val, now)
                 updated == UpdatedBar(bar, downloaded_bytes.val, now)
             IN  /\ progress_bars' = DictSet(progress_bars, d.key, updated)
                 /\ download_stats' =
                      IF d.key \in DOMAIN progress_bars THEN download_stats
                      ELSE DictSet(download_stats, d.key, now)
                 /\ hook_result' =
                      Result(d, "returned", "none",
                             Num(Percentage(downloaded_bytes.val, updated.total)),
                             Eta(updated, now))

\* SuperDownloader.download_hook, status 'finished' (lines 605-617): the bar
\* is updated to its total and deleted; the line update returns is not written
HookFinished(d) ==
    /\ hook_result' = Result(d, "returned", "none", Undefined, Undefined)
    /\ IF d.key \in DOMAIN progress_bars
       THEN /\ progress_bars' = DictDel(progress_bars, d.key)
            /\ download_stats' = DictDel(download_stats, d.key)
       ELSE UNCHANGED <<progress_bars, download_stats>>

\* SuperDownloader.download_hook, status 'error' (lines 618-624)
HookError(d) ==
    /\ progress_bars' = DictDel(progress_bars, d.key)
    /\ download_stats' = DictDel(download_stats, d.key)
    /\ hook_result' = Result(d, "returned", "none", Undefined, Undefined)

\* SuperDownloader.download_hook(d)
DownloadHook ==
    /\ UNCHANGED notHook
    /\ \E d \in Callbacks :
         /\ CASE d.status = "downloading" -> HookDownloading(d)
              [] d.status = "finished"    -> HookFinished(d)
              [] OTHER                    -> HookError(d)
         /\ terminal_seen' = SeenAfter(d.status, d.key, DOMAIN progress_bars)
    /\ UNCHANGED <<now, dl3_progress_bars, dl3_start_times>>

HookNext ==
    \/ Advance
    \/ DownloadHook

\* ProgressBar.__init__ (ytdorn3.py 126-131); total is the entry read from d
NewProgressBar(total, t) == [total |-> total, current |-> 0, start_time |-> t]

\* ProgressBar.update, line 144 (ytdorn3.py): the percentage shown, rounded down
Percentage3(current_bytes, total) ==
    IF Truthy(total) THEN (current_bytes * 100) \div total.val ELSE 0

\* ProgressBar._calculate_eta (ytdorn3.py 165-174), in quarters of a second
Eta3(bar, current_bytes, t) ==
    LET elapsed == t - bar.start_time
    IN  IF current_bytes <= 0 THEN Undefined
        ELSE IF elapsed > 0
        THEN Num(((bar.total.val - current_bytes) * elapsed) \div current_bytes)
        ELSE Num(0)

\* Downloader.download_hook, status 'downloading' (ytdorn3.py 363-382).
\* total_bytes is bound only on the branch taken for a file name that has no
\* bar yet (line 370); line 371 reads it on every call. The clock is read when
\* the bar is made (line 130) and again in _calculate_eta (line 170): dt is
\* the time that passed between the two reads.
Hook3Downloading(d, dt) ==
    IF d.filename = ""
    THEN /\ hook_result' = Result3(d, "returned", "none", Undefined, Undefined)
         /\ UNCHANGED <<dl3_progress_bars, dl3_start_times>>
    ELSE IF d.filename \in DOMAIN dl3_progress_bars
    THEN /\ hook_result' = Result3(d, "raised", "UnboundLocalError", Undefined, Undefined)
         /\ UNCHANGED <<dl3_progress_bars, dl3_start_times>>
    ELSE LET total_bytes == GetOrZero(d.total_bytes)
             downloaded_bytes == GetOrZero(d.downloaded_bytes)
             bar == [NewProgressBar(total_bytes, now) EXCEPT !.current = downloaded_bytes.val]
         IN  /\ dl3_start_times' = DictSet(dl3_start_times, d.filename, now)
             /\ dl3_progress_bars' = DictSet(dl3_progress_bars, d.filename, bar)
             /\ hook_result' =
                  IF total_bytes.kind = "none"
                  THEN \* _format_size(self.total) compares None with 1024
                       Result3(d, "raised", "TypeError", Undefined, Undefined)
                  ELSE Result3(d, "returned", "none",
                               Num(Percentage3(downloaded_bytes.val, total_bytes)),
                               Eta3(bar, downloaded_bytes.val, now + dt))

\* Downloader.download_hook, status 'finished' (ytdorn3.py 384-393)
Hook3Finished(d) ==
    /\ hook_result' = Result3(d, "returned", "none", Undefined, Undefined)
    /\ IF d.filename \in DOMAIN dl3_start_times
       THEN /\ dl3_progress_bars' = DictDel(dl3_progress_bars, d.filename)
            /\ dl3_start_times' = DictDel(dl3_start_times, d.filename)
       ELSE UNCHANGED <<dl3_progress_bars, dl3_start_times>>

\* Downloader.download_hook, any other status: no branch of the hook applies
Hook3Other(d) ==
    /\ hook_result' = Result3(d, "returned", "none", Undefined, Undefined)
    /\ UNCHANGED <<dl3_progress_bars, dl3_start_times>>

\* Downloader.download_hook(d) (ytdorn3.py)
DownloadHook3 ==
    /\ UNCHANGED notHook
    /\ \E d \in Callbacks3, dt \in {0, 1} :
         /\ now + dt <= MaxTime
         /\ CASE d.status = "downloading" -> Hook3Downloading(d, dt) /\ now' = now + dt
              [] d.status = "finished"    -> Hook3Finished(d) /\ dt = 0 /\ now' = now
              [] OTHER                    -> Hook3Other(d) /\ dt = 0 /\ now' = now
         /\ terminal_seen' = SeenAfter(d.status, d.filename, DOMAIN dl3_progress_bars)
    /\ UNCHANGED <<progress_bars, download_stats>>

Hook3Next ==
    \/ Advance
    \/ DownloadHook3

-----------------------------------------------------------------------------
(* The window of ytdorn3gui.py: start_download, download_thread with its     *)
(* progress hook, check_queue and cancel_download (lines 139-229). A click   *)
(* on the Download button is possible only while the button is enabled; the  *)
(* Cancel button is never disabled. Writing to the log from the download     *)
(* thread is taken to succeed.                                               *)

\* a message on self.output_queue: (msg_type, msg)
Msg(type, val, text) == [type |-> type, val |-> val, text |-> text]

\* a thread running download_thread; cancelled and progress_after_cancel
\* record that cancel_download ran while it was running, and that it put a
\* progress message on the queue after that
NewThread == [pc |-> "started", cancelled |-> FALSE, progress_after_cancel |-> FALSE]

\* threads whose engine is running, and threads that have not ended
Running == {t \in DOMAIN threads : threads[t].pc = "running"}
Active == {t \in DOMAIN threads : threads[t].pc \in {"started", "running"}}

\* the widgets and the queue, as check_queue reads and writes them
Widgets ==
    [download_btn_disabled |-> download_btn_disabled, progress_var |-> progress_var,
     status_label |-> status_label, log_area |-> log_area,
     output_queue |-> output_queue, reschedule |-> TRUE]

\* check_queue, lines 207-222: take messages until the queue is empty or a
\* 'done' message is met; on 'done' the method returns without rescheduling
RECURSIVE Drain(_, _)
Drain(q, w) ==
    IF q = <<>> THEN [w EXCEPT !.output_queue = <<>>, !.reschedule = TRUE]
    ELSE LET m == Head(q)
         IN  CASE m.type = "progress" ->
                    Drain(Tail(q), [w EXCEPT !.progress_var = m.val])
               [] m.type = "status" ->
                    Drain(Tail(q), [w EXCEPT !.status_label = m.text])
               [] m.type = "error" ->
                    Drain(Tail(q), [w EXCEPT !.log_area = "Error",
                                             !.download_btn_disabled = FALSE])
               [] OTHER ->
                    [w EXCEPT !.log_area = "Download completed successfully!",
                              !.download_btn_disabled = FALSE,
                              !.output_queue = Tail(q),
                              !.reschedule = FALSE]

\* the widgets after one run of check_queue started from widgets w
AfterCheckQueue(w) ==
    LET r == Drain(w.output_queue, w)
    IN  /\ download_btn_disabled' = r.download_btn_disabled
        /\ progress_var' = r.progress_var
        /\ status_label' = r.status_label
        /\ log_area' = r.log_area
        /\ output_queue' = r.output_queue

GuiStart ==
    /\ download_btn_disabled = FALSE
    /\ progress_var = 0
    /\ status_label = "Ready"
    /\ log_area = ""
    /\ output_queue = <<>>
    /\ threads = <<>>
    /\ pollers = 0

\* start_download, lines 165-174, with the check_queue call that ends it
StartDownload ==
    /\ UNCHANGED notGui
    /\ ~download_btn_disabled
    /\ Len(threads) < MaxStarts
    /\ \E url \in {"", "https://example.com/v"} :
         IF url = ""
         THEN /\ log_area' = "Please enter a URL"
              /\ UNCHANGED <<download_btn_disabled, progress_var, status_label,
                             output_queue, threads, pollers>>
         ELSE LET w == [Widgets EXCEPT !.download_btn_disabled = TRUE,
                                       !.progress_var = 0]
                  r == Drain(w.output_queue, w)
              IN  /\ AfterCheckQueue(w)
                  /\ threads' = Append(threads, NewThread)
                  /\ pollers' = IF r.reschedule THEN pollers + 1 ELSE pollers

\* a check_queue callback scheduled with root.after runs (lines 206-223)
CheckQueue ==
    /\ UNCHANGED notGui
    /\ pollers > 0
    /\ AfterCheckQueue(Widgets)
    /\ pollers' = IF Drain(output_queue, Widgets).reschedule THEN pollers ELSE pollers - 1
    /\ UNCHANGED threads

\* cancel_download, lines 225-229
CancelDownload ==
    /\ UNCHANGED notGui
    /\ log_area' = "Download cancelled"
    /\ download_btn_disabled' = FALSE
    /\ progress_var' = 0
    /\ status_label' = "Ready"
    /\ threads' = [t \in DOMAIN threads |->
                     IF t \in Active
                     THEN [threads[t] EXCEPT !.cancelled = TRUE] ELSE threads[t]]
    /\ UNCHANGED <<output_queue, pollers>>

\* download_thread reads the form, builds the options and starts the engine
\* (lines 177-200)
ThreadStartsEngine ==
    /\ UNCHANGED notGui
    /\ \E t \in Active \ Running :
         /\ log_area' = "Starting download"
         /\ threads' = [threads EXCEPT ![t].pc = "running"]
         /\ UNCHANGED <<download_btn_disabled, progress_var, status_label,
                        output_queue, pollers>>

\* the engine calls download_progress_hook with status 'downloading'
\* (lines 140-152); total_bytes > 0 fails when the entry holds None, and the
\* exception ends download_thread in its handler (lines 203-204)
ThreadProgress ==
    /\ UNCHANGED notGui
    /\ \E t \in Running :
       \E total \in {AbsentV, NoneV, IntV(0), IntV(TotalSize)}, downloaded \in 0..MaxBytes,
          speed \in BOOLEAN :
         LET total_bytes == GetOrZero(total)
             progress == IF total_bytes.kind = "int" /\ total_bytes.val > 0
                         THEN <<Msg("progress", (downloaded * 100) \div total_bytes.val, "")>>
                         ELSE <<>>
             stat == IF speed THEN <<Msg("status", 0, "Downloading")>> ELSE <<>>
             puts == IF total_bytes.kind = "none"
                     THEN <<Msg("error", 0, "TypeError")>>
                     ELSE progress \o stat
         IN  /\ Len(output_queue) + Len(puts) <= MaxQueue
             /\ output_queue' = output_queue \o puts
             /\ threads' =
                  [threads EXCEPT
                     ![t].pc = IF total_bytes.kind = "none" THEN "error" ELSE @,
                     ![t].progress_after_cancel =
                        @ \/ (threads[t].cancelled /\ progress # <<>>
                              /\ total_bytes.kind # "none")]
             /\ UNCHANGED <<download_btn_disabled, progress_var, status_label,
                            log_area, pollers>>

\* the engine calls download_progress_hook with status 'finished' (lines 154-156)
ThreadFinished ==
    /\ UNCHANGED notGui
    /\ \E t \in Running :
         /\ Len(output_queue) < MaxQueue
         /\ output_queue' =
              Append(output_queue, Msg("status", 0, "Download complete, processing..."))
         /\ log_area' = "Download complete, processing file..."
         /\ UNCHANGED <<download_btn_disabled, progress_var, status_label,
                        threads, pollers>>

\* ydl.download returns: download_thread puts ('done', None) (line 202)
ThreadDone ==
    /\ UNCHANGED notGui
    /\ \E t \in Running :
         /\ Len(output_queue) < MaxQueue
         /\ output_queue' = Append(output_queue, Msg("done", 0, "None"))
         /\ threads' = [threads EXCEPT ![t].pc = "done"]
         /\ UNCHANGED <<download_btn_disabled, progress_var, status_label,
                        log_area, pollers>>

\* download_thread catches an exception of the engine (lines 203-204)
ThreadError ==
    /\ UNCHANGED notGui
    /\ \E t \in Active :
         /\ Len(output_queue) < MaxQueue
         /\ output_queue' = Append(output_queue, Msg("error", 0, "DownloadError"))
         /\ threads' = [threads EXCEPT ![t].pc = "error"]
         /\ UNCHANGED <<download_btn_disabled, progress_var, status_label,
                        log_area, pollers>>

GuiNext ==
    \/ StartDownload
    \/ CheckQueue
    \/ CancelDownload
    \/ ThreadStartsEngine
    \/ ThreadProgress
    \/ ThreadFinished
    \/ ThreadDone
    \/ ThreadError

-----------------------------------------------------------------------------
(* The form of the window of ytdorn3gui.py: the quality box, the download    *)
(* type and the directory entry (create_widgets, lines 44-84), as            *)
(* download_thread reads them to build the engine's options (lines 176-194). *)

\* qualities, lines 61-67
Qualities ==
    << "Best Quality Video (1080p+)",
       "Medium Quality Video (720p)",
       "Low Quality Video (480p)",
       "Audio Only (Best Quality)",
       "Audio Only (Medium Quality)" >>

\* s[0] for the texts quality_var can hold: "1", the value the StringVar is
\* made with, and the entries of the box
FirstChar(s) ==
    CASE s = "1" -> "1"
      [] s = "Best Quality Video (1080p+)" -> "B"
      [] s = "Medium Quality Video (720p)" -> "M"
      [] s = "Low Quality Video (480p)"    -> "L"
      [] s = "Audio Only (Best Quality)"   -> "A"
      [] s = "Audio Only (Medium Quality)" -> "A"

\* YtDornGUI.get_format_options(choice), lines 234-264
GuiFormatOptions(choice) ==
    CASE choice = "1" -> [format |-> FmtBest]
      [] choice = "2" -> [format |-> Fmt3_720]
      [] choice = "3" -> [format |-> Fmt3_480]
      [] choice = "4" -> [format |-> Fmt3_Audio,
                          postprocessors |->
                            << [ key |-> "FFmpegExtractAudio", preferredcodec |-> "m4a",
                                 preferredquality |-> "192" ] >>]
      [] OTHER        -> [format |-> Fmt3_WorstAudio,
                          postprocessors |->
                            << [ key |-> "FFmpegExtractAudio", preferredcodec |-> "m4a",
                                 preferredquality |-> "128" ] >>]

\* the directories the entry is set to
FormDirs == {"~/Downloads", "/d1"}

\* ydl_opts of download_thread, lines 187-195, without the hook it carries
GuiYdlOpts(selection, type, dir) ==
    LET is_playlist == type = "playlist"
        base == [ outtmpl |-> <<dir, IF is_playlist THEN "%(playlist)s/%(title)s.%(ext)s"
                                                    ELSE "%(title)s.%(ext)s">>,
                  quiet |-> TRUE, no_warnings |-> TRUE, extract_flat |-> is_playlist ]
    IN  DictUpdate(base, GuiFormatOptions(FirstChar(selection)))

NoFormThread == [selection |-> "none", ydl_opts |-> EmptyDict]

\* the form after create_widgets: quality_menu.set(qualities[0]) has replaced
\* the "1" the StringVar was made with (line 72)
FormStart ==
    /\ quality_var = Qualities[1]
    /\ download_type = "single"
    /\ dir_entry = "~/Downloads"
    /\ form_thread = NoFormThread

\* the user picks an entry of the read-only quality box
SelectQuality ==
    /\ UNCHANGED notForm
    /\ \E i \in DOMAIN Qualities : quality_var' = Qualities[i]
    /\ quality_var' # quality_var
    /\ UNCHANGED <<download_type, dir_entry, form_thread>>

\* the user picks one of the two download types (lines 50-54)
SelectType ==
    /\ UNCHANGED notForm
    /\ download_type' \in {"single", "playlist"} \ {download_type}
    /\ UNCHANGED <<quality_var, dir_entry, form_thread>>

\* browse_directory or typing sets the directory entry
SetDirectory ==
    /\ UNCHANGED notForm
    /\ dir_entry' \in FormDirs \ {dir_entry}
    /\ UNCHANGED <<quality_var, download_type, form_thread>>

\* download_thread up to the call of the engine (lines 177-198)
FormDownloadThread ==
    /\ UNCHANGED notForm
    /\ form_thread' = [selection |-> quality_var,
                       ydl_opts |-> GuiYdlOpts(quality_var, download_type, dir_entry)]
    /\ UNCHANGED <<quality_var, download_type, dir_entry>>

FormNext ==
    \/ SelectQuality
    \/ SelectType
    \/ SetDirectory
    \/ FormDownloadThread

-----------------------------------------------------------------------------
(* ConfigManager used on its own: load_config and add_recent_output_dir      *)
(* called in any order, while the file may be removed or damaged between     *)
(* two calls by something outside the program.                               *)

\* a configuration file that redefines one of the default presets
UserDocOwnPreset ==
    [ default_format |-> "720p",
      recent_output_dirs |-> <<>>,
      presets |-> [ high_quality_mp4 |-> [ format |-> "worst" ] ] ]

\* the directories add_recent_output_dir is called with
CfgPaths == {"out", "./out", "/d1", "/d2", "/d3", "/d4"}

NoCall == [op |-> "none", path |-> "", found |-> "none"]

CfgStart ==
    /\ loaded_config = EmptyDict
    /\ last_call = NoCall

\* config = ConfigManager.load_config()
CfgLoad ==
    /\ UNCHANGED notCfg
    /\ loaded_config' = LoadConfig(config_file).config
    /\ config_file' = LoadConfig(config_file).file
    /\ backup_files' = BackupsAfterLoad(config_file, backup_files)
    /\ last_call' = [op |-> "load", path |-> "", found |-> config_file.state]

\* ConfigManager.add_recent_output_dir(output_path, make_default); the dict
\* load_config returned to it is the one it changes and saves
CfgAddRecent ==
    /\ UNCHANGED notCfg
    /\ \E output_path \in CfgPaths, make_default \in BOOLEAN :
         /\ config_file' = AddRecentOutputDir(config_file, output_path, make_default)
         /\ loaded_config' = AddRecentOutputDir(config_file, output_path, make_default).doc
         /\ last_call' = [op |-> "add", path |-> output_path, found |-> config_file.state]
    /\ backup_files' = BackupsAfterLoad(config_file, backup_files)

\* the file is deleted or overwritten with unreadable content from outside
CfgDamage ==
    /\ UNCHANGED notCfg
    /\ config_file.state = "valid"
    /\ config_file' \in {MissingFile, CorruptFile, UndecodableFile}
    /\ last_call' = [op |-> "damage", path |-> "", found |-> config_file.state]
    /\ UNCHANGED <<loaded_config, backup_files>>

CfgNext ==
    \/ CfgLoad
    \/ CfgAddRecent
    \/ CfgDamage

-----------------------------------------------------------------------------
(* One AdvancedProgressBar on its own (ytdorn.py 117-240): update is called  *)
(* with any byte count, and time.time() may return any of the instants       *)
(* below, also one that is not later than the one it returned before.        *)

\* the instants the clock returns: every quarter second of the first throttle
\* interval, then one instant per interval, each just past the throttle
BarTimes ==
    (0..ThrottleTicks) \cup {1 + k * (ThrottleTicks + 1) : k \in 0..MaxIntervals}

\* the byte counts update is called with: the count of one transfer, which
\* here does not shrink from one call to the next
BarBytes(bar) == {b \in 1..TotalSize : b >= bar.current}

BarKey == "a.mp4"

\* AdvancedProgressBar(total_bytes), line 580
BarCreate ==
    /\ UNCHANGED notHook
    /\ BarKey \notin DOMAIN progress_bars
    /\ progress_bars' = DictSet(progress_bars, BarKey, NewAdvancedProgressBar(TotalSize, now))
    /\ UNCHANGED <<now, download_stats, dl3_progress_bars, dl3_start_times,
                   hook_result, terminal_seen>>

\* bar.update(current_bytes), with the instant time.time() returns at line 132
BarUpdate ==
    /\ UNCHANGED notHook
    /\ BarKey \in DOMAIN progress_bars
    /\ \E t \in BarTimes, current_bytes \in BarBytes(progress_bars[BarKey]) :
         /\ now' = t
         /\ progress_bars' = DictSet(progress_bars, BarKey,
                                     UpdatedBar(progress_bars[BarKey], current_bytes, t))
    /\ UNCHANGED <<download_stats, dl3_progress_bars, dl3_start_times,
                   hook_result, terminal_seen>>

BarNext ==
    \/ BarCreate
    \/ BarUpdate

-----------------------------------------------------------------------------
(* The specifications *)

\* the variables of the CLI run while option resolution is examined
RunIdle ==
    /\ run_pc = "idle"
    /\ mode = "url"
    /\ batch_file = [exists |-> FALSE, lines |-> <<>>]
    /\ ignore_errors_opt = "absent"
    /\ valid_urls = <<>>
    /\ idx = 1
    /\ successful_downloads = 0
    /\ status = <<>>
    /\ started = <<>>
    /\ reported_failed = {}
    /\ summary = [printed |-> FALSE, successful |-> 0, total |-> 0]
    /\ exc = "none"
    /\ raised_in = "none"
    /\ interrupted = FALSE
    /\ exit_code = -1

\* the variables of option resolution while the run is examined
CliIdle ==
    /\ cli_pc = "dispatch"
    /\ args = [preset |-> NoArg]
    /\ config = EmptyDict
    /\ cli_options = EmptyDict
    /\ cli_exit = -1
    /\ created_dirs = {}
    /\ ydl_opts = EmptyDict

RunInit ==
    /\ RunStart
    /\ CliIdle
    /\ HookStart
    /\ GuiStart
    /\ FormStart
    /\ CfgStart
    /\ backup_files = {}
    /\ config_file = AddRecentOutputDir(MissingFile, RunOutputDir, TRUE)

CliInit ==
    /\ CliStart
    /\ RunIdle
    /\ HookStart
    /\ GuiStart
    /\ FormStart
    /\ CfgStart
    /\ backup_files = {}
    /\ config_file \in {MissingFile, CorruptFile, ValidFile(UserDoc)}

HookInit ==
    /\ HookStart
    /\ RunIdle
    /\ CliIdle
    /\ GuiStart
    /\ FormStart
    /\ CfgStart
    /\ backup_files = {}
    /\ config_file = MissingFile

GuiInit ==
    /\ GuiStart
    /\ FormStart
    /\ RunIdle
    /\ CliIdle
    /\ HookStart
    /\ CfgStart
    /\ backup_files = {}
    /\ config_file = MissingFile

SpecBatch == RunInit /\ [][RunNext]_vars

SpecHook == HookInit /\ [][HookNext]_vars

SpecHook3 == HookInit /\ [][Hook3Next]_vars

SpecBar == HookInit /\ [][BarNext]_vars

SpecGui == GuiInit /\ [][GuiNext]_vars

SpecForm == GuiInit /\ [][FormNext]_vars

CfgInit ==
    /\ CfgStart
    /\ RunIdle
    /\ CliIdle
    /\ HookStart
    /\ GuiStart
    /\ FormStart
    /\ backup_files = {}
    /\ config_file \in {MissingFile, CorruptFile, UndecodableFile, ValidFile(UserDoc),
                        ValidFile(UserDocOwnPreset)}

SpecConfig == CfgInit /\ [][CfgNext]_vars

SpecCli == CliInit /\ [][CliNext]_vars

-----------------------------------------------------------------------------
(* Properties of the CLI run *)

CountStatus(v) == Cardinality({t \in Tasks : status[t] = v})

C3_FailureDoesNotAbortRun ==
    (run_pc = "exited" /\ mode = "batch" /\ ~interrupted /\ Len(valid_urls) > 0) =>
        /\ summary.printed
        /\ \A t \in Tasks : started[t] = 1 /\ status[t] \in {"Completed", "Failed"}
        /\ \A t \in reported_failed : status[t] = "Failed"
        /\ summary.successful = Len(valid_urls) - Cardinality(reported_failed)
        /\ summary.successful >= CountStatus("Completed")

C3_Witness ==
    /\ run_pc = "exited"
    /\ Len(valid_urls) = 3
    /\ status = <<"Completed", "Failed", "Completed">>
    /\ reported_failed = {2}
    /\ summary = [printed |-> TRUE, successful |-> 2, total |-> 3]

\* C4: once the interruption is signalled no Pending task is started any
\* more and the run only unwinds; when the process has exited, the task that
\* was in progress is terminal and the others are as they were.
C4_NoStartAfterInterrupt ==
    /\ [][interrupted' =>
            \A t \in DOMAIN status :
                /\ started'[t] = started[t]
                /\ status[t] = "Pending" => status'[t] = "Pending"]_vars
    /\ [](interrupted => run_pc \in {"unwinding", "exited"})
    /\ []((interrupted /\ run_pc = "exited") =>
            \A t \in Tasks : status[t] \in Terminal \cup {"Pending"})

C4_Witness ==
    /\ interrupted
    /\ run_pc = "exited"
    /\ CountStatus("Cancelled") = 1
    /\ CountStatus("Pending") >= 1
    /\ CountStatus("Completed") >= 1

\* C6: when a batch run reports its summary, every task is in exactly one of
\* Completed, Failed and Cancelled, the reported number of successes is the
\* number of Completed tasks, and every Failed task was reported as failed.
C6_SummaryCountsEveryTask ==
    summary.printed =>
        /\ \A t \in Tasks : status[t] \in Terminal
        /\ summary.successful = CountStatus("Completed")
        /\ summary.total - summary.successful
             = CountStatus("Failed") + CountStatus("Cancelled")
        /\ {t \in Tasks : status[t] = "Failed"} \subseteq reported_failed

\* C7: a run over at least one task exits with code 0 exactly when all its
\* tasks completed; a run that did not complete all its tasks never exits 0.
C7_ExitZeroIffAllCompleted ==
    (run_pc = "exited" /\ Len(valid_urls) > 0) =>
        (exit_code = 0 <=> \A t \in Tasks : status[t] = "Completed")

-----------------------------------------------------------------------------
(* Properties of option resolution *)

\* the options the user supplied on the command line, with their values
Overrides(a, c) ==
    LET opts == OptionsFromArgs(a, c)
        keys == (IF a.output # NoArg THEN {"output_dir"} ELSE {})
                \cup (IF a.format # NoArg \/ a.extract_audio THEN {"format"} ELSE {})
                \cup (IF a.extract_audio THEN {"extract_audio"} ELSE {})
                \cup (IF a.subtitles THEN {"subtitles"} ELSE {})
                \cup (IF a.thumbnail THEN {"thumbnail"} ELSE {})
                \cup (IF a.description_file THEN {"description_file"} ELSE {})
                \cup (IF a.metadata_json THEN {"metadata_json"} ELSE {})
                \cup (IF a.playlist_items # NoArg THEN {"playlist_items"} ELSE {})
                \cup (IF a.no_playlist THEN {"no_playlist"} ELSE {})
    IN  DictRestrict(opts, keys)

PresetApplied ==
    /\ cli_pc \in {"resolved", "dispatch"}
    /\ args.preset # NoArg

\* C1: with a preset applied, every key present both in the overrides given
\* on the command line and in the preset resolves to the override's value.
C1_OverrideWinsOverPreset ==
    PresetApplied =>
        \A k \in DOMAIN Overrides(args, config) \cap DOMAIN config["presets"][args.preset] :
            cli_options[k] = Overrides(args, config)[k]

\* the preset named on the command line, if any, is one the configuration holds
PresetKnown == args.preset = NoArg \/ args.preset \in DOMAIN config["presets"]

Resolved == cli_pc \in {"resolved", "dispatch", "downloading", "exited"}

\* C11: after option resolution with no preset or a stored preset, the
\* effective options hold a value for output_dir and for format.
C11_ResolvedOptionsComplete ==
    (Resolved /\ PresetKnown) => {"output_dir", "format"} \subseteq DOMAIN cli_options

\* C12: when the preset named on the command line is not stored, resolution
\* ends the process with exit code 1; no directory has been created, no options
\* have reached the engine, and the persisted recent list and default
\* directory are those read at start.
C12_UnknownPresetFailsEarly ==
    (Resolved /\ ~PresetKnown) =>
        /\ cli_pc = "exited"
        /\ cli_exit = 1
        /\ created_dirs = {}
        /\ ydl_opts = EmptyDict
        /\ LoadConfig(config_file).config["recent_output_dirs"] = config["recent_output_dirs"]
        /\ LoadConfig(config_file).config["default_output_dir"] = config["default_output_dir"]

C12_Witness ==
    /\ cli_pc = "exited"
    /\ args.preset = "nosuch"
    /\ args.output = "out"
    /\ config["recent_output_dirs"] # <<>>


-----------------------------------------------------------------------------
(* Properties of the progress callbacks *)

\* C8: once a 'finished' or 'error' callback has arrived for a tracked key, no
\* later callback puts that key back among the tracked (downloading) transfers.
C8_NoReturnToDownloading ==
    \A k \in terminal_seen : k \notin DOMAIN progress_bars

\* C9: every 'downloading' callback of the ytdorn3 progress hook that carries
\* a positive total returns normally, also when callbacks for one file repeat.
C9_HookNeverFails ==
    (hook_result.status = "downloading" /\ hook_result.total_known) =>
        hook_result.outcome # "raised"

\* C10: a 'downloading' callback that carries no usable total returns normally
\* and shows no numeric percentage.
C10_UnknownTotalHasNoPercent ==
    (hook_result.status = "downloading" /\ ~hook_result.total_known) =>
        /\ hook_result.outcome = "returned"
        /\ hook_result.percent = Undefined

\* C19: the ETA the ytdorn3 progress bar reports is unknown or a duration
\* that is not negative.
C19_EtaNeverNegative ==
    hook_result.eta.kind = "num" => hook_result.eta.val >= 0

\* C20: the percentage a 'downloading' callback shows lies within 0..100.
C20_PercentWithinRange ==
    (hook_result.status = "downloading" /\ hook_result.percent.kind = "num") =>
        (hook_result.percent.val >= 0 /\ hook_result.percent.val <= 100)

\* C25: bars and start-time records are kept under the same keys, and after a
\* 'finished' or 'error' callback for a key neither a bar nor a start-time
\* record is left under it.
C25_TrackersDiscardedOnTerminal ==
    /\ DOMAIN progress_bars = DOMAIN download_stats
    /\ DOMAIN dl3_progress_bars = DOMAIN dl3_start_times
    /\ hook_result.status \in {"finished", "error"} =>
          hook_result.key \notin
              (DOMAIN progress_bars \cup DOMAIN download_stats \cup
               DOMAIN dl3_progress_bars \cup DOMAIN dl3_start_times)

\* the bars present before and after a step
Kept == DOMAIN progress_bars \cap DOMAIN progress_bars'

\* C22: the sample window of a progress bar never holds more than WindowSize
\* samples, and an update that adds a sample to a full window drops the oldest.
C22_WindowBounded ==
    /\ [](\A k \in DOMAIN progress_bars :
            Len(progress_bars[k].speed_samples) <= WindowSize)
    /\ [][\A k \in Kept :
            LET before == progress_bars[k].speed_samples
                after  == progress_bars'[k].speed_samples
            IN  (Len(before) = WindowSize /\ after # before) =>
                    /\ Len(after) = WindowSize
                    /\ SubSeq(after, 1, WindowSize - 1) = Tail(before)]_vars

\* a full window that ends at the last instant and no longer holds the
\* instants of the first throttle interval
C22_Witness ==
    /\ BarKey \in DOMAIN progress_bars
    /\ LET samples == progress_bars[BarKey].speed_samples
       IN  /\ Len(samples) = WindowSize
           /\ samples[1][1] > ThrottleTicks
           /\ samples[WindowSize][1] = 1 + MaxIntervals * (ThrottleTicks + 1)

\* C23: the timestamps in a sample window are strictly increasing, and an
\* update at an instant that is not later than the newest sample leaves the
\* window as it was.
C23_WindowTimestampsIncrease ==
    /\ [](\A k \in DOMAIN progress_bars :
            LET samples == progress_bars[k].speed_samples
            IN  \A i, j \in 1..Len(samples) : i < j => samples[i][1] < samples[j][1])
    /\ [][\A k \in Kept :
            LET before == progress_bars[k].speed_samples
                after  == progress_bars'[k].speed_samples
            IN  (before # <<>> /\ now' <= before[Len(before)][1]) => after = before]_vars

\* C24: two samples next to each other in a window are more than the throttle
\* apart, while the byte count a bar holds, and the percentage written, are
\* those of the last 'downloading' callback, throttled or not.
C24_ThrottledSamplesImmediateBytes ==
    /\ \A k \in DOMAIN progress_bars :
         LET samples == progress_bars[k].speed_samples
         IN  \A i \in 1..(Len(samples) - 1) :
                 samples[i + 1][1] - samples[i][1] > ThrottleTicks
    /\ (/\ hook_result.status = "downloading"
        /\ hook_result.percent.kind = "num"
        /\ hook_result.key \in DOMAIN progress_bars) =>
           LET bar == progress_bars[hook_result.key]
           IN  hook_result.percent.val = Percentage(bar.current, bar.total)

\* a callback inside the throttle interval of the second sample: the window
\* kept its two samples, the byte count moved on
C24_Witness ==
    /\ hook_result.status = "downloading"
    /\ hook_result.percent = Num(100)
    /\ hook_result.key \in DOMAIN progress_bars
    /\ LET bar == progress_bars[hook_result.key]
       IN  /\ Len(bar.speed_samples) = 2
           /\ bar.speed_samples[2] = <<now, 1>>
           /\ bar.current = TotalSize

\* the clock went back: the last update came at an instant earlier than the
\* newest sample, with a byte count the window does not hold
C23_Witness ==
    /\ BarKey \in DOMAIN progress_bars
    /\ LET bar == progress_bars[BarKey]
           samples == bar.speed_samples
       IN  /\ Len(samples) > 1
           /\ now < samples[Len(samples)][1]
           /\ bar.current # samples[Len(samples)][2]

-----------------------------------------------------------------------------
(* Properties of the window *)

\* C5: a download that was in progress when cancellation was requested never
\* afterwards reports progress and never ends as successfully completed.
C5_CancelledNeverCompletes ==
    \A t \in DOMAIN threads :
        threads[t].cancelled =>
            /\ threads[t].pc # "done"
            /\ ~threads[t].progress_after_cancel

\* C29: without a preset, --extract-audio makes the resolved format
\* 'bestaudio/best' with the audio settings of the command line, whatever the
\* format argument is: the if-chain then switches on the key 'audio', never
\* on the format argument.
C29_ExtractAudioOverridesFormat ==
    (Resolved /\ args.preset = NoArg /\ args.extract_audio) =>
        /\ ChosenFormatKey(args, config) = "audio"
        /\ cli_options["format"] = FmtAudio
        /\ cli_options["extract_audio"] = TRUE
        /\ cli_options["audio_format"] = args.audio_format
        /\ cli_options["audio_quality"] = args.audio_quality

\* --extract-audio given together with a format that is none of the named keys
C29_Witness ==
    /\ cli_pc = "resolved"
    /\ args.preset = NoArg
    /\ args.extract_audio
    /\ args.format = CustomFormat
    /\ cli_options["format"] = FmtAudio

\* C30: the persisted default_output_dir and recent_output_dirs differ from
\* those read at the start of the run only once the download has been handed
\* to the engine, and default_output_dir only when --output was given.
C30_PersistedDirChangedOnlyAfterDownload ==
    (cli_pc # "start") =>
        LET stored == LoadConfig(config_file).config
        IN  /\ stored["recent_output_dirs"] # config["recent_output_dirs"] =>
                  cli_pc = "downloading"
            /\ stored["default_output_dir"] # config["default_output_dir"] =>
                  (cli_pc = "downloading" /\ args.output # NoArg)

\* C27: at most one download thread of the window has not ended.
C27_OneDownloadThread ==
    Cardinality(Active) <= 1

\* C28: at most one check_queue callback is pending, and none is pending
\* once the queue holds nothing and every download thread has ended.
C28_OnePollingLoop ==
    /\ pollers <= 1
    /\ (threads # <<>> /\ Active = {} /\ output_queue = <<>>) => pollers = 0

\* the format the entry at a position of the quality box stands for
FormatOfPosition(i) ==
    CASE i = 1 -> FmtBest
      [] i = 2 -> Fmt3_720
      [] i = 3 -> Fmt3_480
      [] i = 4 -> Fmt3_Audio
      [] i = 5 -> Fmt3_WorstAudio

\* C26: the options a download thread gives the engine carry the format of
\* the position of the entry selected in the quality box, and an audio
\* extraction step for the two audio entries only.
C26_SelectionResolvesToItsFormat ==
    \A i \in DOMAIN Qualities :
        form_thread.selection = Qualities[i] =>
            /\ form_thread.ydl_opts["format"] = FormatOfPosition(i)
            /\ ("postprocessors" \in DOMAIN form_thread.ydl_opts) <=> (i \in {4, 5})

-----------------------------------------------------------------------------
(* Properties of ConfigManager *)

\* C13: a load_config call that finds the file missing or unreadable returns
\* the built-in defaults and leaves a default document in place; when the file
\* was present but unreadable, the file found has been kept as a backup.
C13_LoadFallsBackAndBacksUp ==
    (last_call.op = "load" /\ last_call.found # "valid") =>
        /\ loaded_config = DefaultConfig
        /\ config_file = ValidFile(DefaultConfig)
        /\ last_call.found \in {"corrupt", "undecodable"} =>
               \E b \in backup_files : b.state = last_call.found

\* C14: after an add_recent_output_dir call the recent list has at most
\* MaxRecent entries, no entry twice, and the resolved path of the call first.
C14_RecentListBounded ==
    last_call.op = "add" =>
        LET recent == config_file.doc["recent_output_dirs"]
        IN  /\ config_file.state = "valid"
            /\ Len(recent) <= MaxRecent
            /\ \A i, j \in 1..Len(recent) : recent[i] = recent[j] => i = j
            /\ Len(recent) > 0
            /\ recent[1] = Resolve(last_call.path)

\* a full list to which a path already at its end, under another spelling, was added
C14_Witness ==
    /\ last_call.op = "add"
    /\ last_call.path = "./out"
    /\ Len(config_file.doc["recent_output_dirs"]) = MaxRecent
    /\ config_file.doc["recent_output_dirs"][MaxRecent] = "/data/default"
    /\ "/data/old" \notin Range(config_file.doc["recent_output_dirs"])

\* C15 as stated: after load_config has read a valid document, every top-level
\* key of the document, 'presets' included, has exactly the persisted value.
C15_KeywiseReplace ==
    (last_call.op = "load" /\ last_call.found = "valid") =>
        \A k \in DOMAIN config_file.doc : loaded_config[k] = config_file.doc[k]

\* C15, amended: every top-level key of the document other than 'presets' has
\* exactly the persisted value; under 'presets' every persisted preset is kept
\* as persisted, and the default presets whose names the document lacks are
\* added to them.
C15_KeywiseReplaceExceptPresets ==
    (last_call.op = "load" /\ last_call.found = "valid") =>
        LET doc == config_file.doc
        IN  /\ \A k \in DOMAIN doc \ {"presets"} : loaded_config[k] = doc[k]
            /\ "presets" \in DOMAIN doc =>
                 /\ DOMAIN loaded_config["presets"] =
                        DOMAIN doc["presets"] \cup DOMAIN DefaultPresets
                 /\ \A n \in DOMAIN doc["presets"] :
                        loaded_config["presets"][n] = doc["presets"][n]
                 /\ \A n \in DOMAIN DefaultPresets \ DOMAIN doc["presets"] :
                        loaded_config["presets"][n] = DefaultPresets[n]

C15_Witness ==
    /\ last_call.op = "load"
    /\ last_call.found = "valid"
    /\ "high_quality_mp4" \in DOMAIN config_file.doc["presets"]
    /\ loaded_config["presets"]["high_quality_mp4"] # DefaultPresets["high_quality_mp4"]
    /\ "archive_data_saver" \in DOMAIN loaded_config["presets"]

\* C21: a load_config call that finds no file returns exactly the built-in
\* defaults, and loading again from the file it left returns them again.
C21_DefaultsOnlyIsIdentity ==
    (last_call.op = "load" /\ last_call.found = "missing") =>
        /\ loaded_config = DefaultConfig
        /\ LoadConfig(config_file).config = DefaultConfig
        /\ LoadConfig(config_file).file = config_file

C21_Witness ==
    /\ last_call.op = "load"
    /\ last_call.found = "missing"
    /\ config_file = ValidFile(DefaultConfig)
    /\ loaded_config["presets"] = DefaultPresets

-----------------------------------------------------------------------------
(* Properties of format resolution *)

HeightTiers == {"1080p", "720p", "480p"}

\* the command line asked for a height tier and nothing overrides the format
TierResolved ==
    /\ cli_pc \in {"resolved", "dispatch", "downloading"}
    /\ args.preset = NoArg
    /\ ~args.extract_audio
    /\ args.format \in HeightTiers

\* C16 as stated: a height tier resolves to a query whose first alternative
\* is a single container at or below the height, whose second is muxed video
\* plus audio at or below the height, and whose third is unconstrained best.
C16_SingleContainerFirst ==
    TierResolved =>
        LET alts == Alternatives(cli_options["format"])
            h == TierHeight(args.format)
        IN  /\ Len(alts) = 3
            /\ alts[1].kind = "single" /\ alts[1].height = h
            /\ alts[2] = Muxed(h)
            /\ alts[3] = Single(NoLimit, "any")

\* C16, amended: a height tier resolves to a query whose first alternative is
\* muxed mp4 video at or below the height plus m4a audio, whose second is a
\* single mp4 container at or below the height, and whose third is the best
\* single file, at or below the height in ytdorn.py (command line and menu)
\* and unconstrained in ytdorn3.
C16_MuxedFirst ==
    /\ TierResolved =>
         Alternatives(cli_options["format"]) =
             <<Muxed(TierHeight(args.format)), Single(TierHeight(args.format), "mp4"),
               Single(TierHeight(args.format), "any")>>
    /\ \A key \in HeightTiers :
         Alternatives(MenuFormatOptions(key, CustomFormat)["format"]) =
             <<Muxed(TierHeight(key)), Single(TierHeight(key), "mp4"),
               Single(TierHeight(key), "any")>>
    /\ \A choice \in {"2", "3"} :
         Alternatives(GetFormatOptions3(choice)["format"]) =
             <<Muxed(TierHeight(choice)), Single(TierHeight(choice), "mp4"),
               Single(NoLimit, "any")>>

C16_Witness ==
    /\ cli_pc = "downloading"
    /\ args.preset = NoArg
    /\ ~args.extract_audio
    /\ args.format = "720p"
    /\ ydl_opts["format"] = Fmt720

\* the audio-extraction steps among the post-processors of engine options
ExtractSteps(opts) ==
    SelectSeq(DictGet(opts, "postprocessors", <<>>),
              LAMBDA pp : pp["key"] = "FFmpegExtractAudio")

\* exactly one audio-extraction step, carrying a codec and a quality
OneExtractStep(opts) ==
    /\ Len(ExtractSteps(opts)) = 1
    /\ {"preferredcodec", "preferredquality"} \subseteq DOMAIN ExtractSteps(opts)[1]
    /\ ExtractSteps(opts)[1]["preferredcodec"] # NoArg
    /\ ExtractSteps(opts)[1]["preferredquality"] # NoArg

AudioTierRequested == args.extract_audio \/ args.format \in {"audio", "mp3"}

\* C17: for the format keys 'audio' and 'mp3' and the --extract-audio flag,
\* with or without a preset, and for the menu keys 'audio' and 'mp3' and the
\* choices 4 and 5 of ytdorn3, the options given to the engine hold exactly one
\* audio-extraction step, and it carries a codec and a quality.
C17_OneAudioExtractionStep ==
    /\ (cli_pc = "downloading" /\ AudioTierRequested) => OneExtractStep(ydl_opts)
    /\ \A key \in {"audio", "mp3"} : OneExtractStep(YdlOpts(MenuFormatOptions(key, CustomFormat)))
    /\ \A choice \in {"4", "5"} : OneExtractStep(GetFormatOptions3(choice))

\* an audio tier over a preset, with subtitles embedded: two post-processors
C17_Witness ==
    /\ cli_pc = "downloading"
    /\ args.format = "mp3"
    /\ args.preset = "mine_full"
    /\ "postprocessors" \in DOMAIN ydl_opts
    /\ Len(ydl_opts["postprocessors"]) = 2

=============================================================================
